---- MODULE Spec2Model ----
(***************************************************************************)
(* Model of the DCF valuation engine of src/dcf_automator.py (class        *)
(* DCFModel): historical metrics, projections, WACC, DCF valuation,        *)
(* sensitivity analysis, the stage-triggering prelude of generate_report   *)
(* and run_full_analysis.                                                   *)
(*                                                                         *)
(* Numbers.  The program computes in IEEE doubles.  The model computes in  *)
(* exact extended rationals: a number is a pair <<n, d>> in lowest terms   *)
(* with d > 0, or one of the three special values the program's numpy      *)
(* scalars can take: <<0,0>> (nan), <<1,0>> (+inf), <<-1,0>> (-inf).       *)
(* Rounding error of the doubles is not modelled; nan and inf are.         *)
(***************************************************************************)
EXTENDS Integers, Sequences, FiniteSets, TLC

-----------------------------------------------------------------------------
(* Extended rational arithmetic *)

AbsInt(x) == IF x < 0 THEN -x ELSE x

RECURSIVE GCD(_, _)
GCD(a, b) == IF b = 0 THEN a ELSE GCD(b, a % b)

\* <<n, d>> with d # 0, brought to lowest terms with a positive denominator
Norm(n, d) ==
    LET g == GCD(AbsInt(n), AbsInt(d))
        s == IF d < 0 THEN -1 ELSE 1
    IN  <<s * (n \div g), s * (d \div g)>>

R(n) == <<n, 1>>
Q(n, d) == Norm(n, d)
NaN == <<0, 0>>
PosInf == <<1, 0>>
NegInf == <<-1, 0>>

IsNaN(a) == a = NaN
IsInf(a) == a[2] = 0 /\ a[1] # 0
IsFinite(a) == a[2] # 0
Sign(a) == IF a[1] > 0 THEN 1 ELSE IF a[1] < 0 THEN -1 ELSE 0
InfOf(s) == IF s > 0 THEN PosInf ELSE NegInf

Neg(a) == <<-a[1], a[2]>>

Add(a, b) ==
    IF IsNaN(a) \/ IsNaN(b) THEN NaN
    ELSE IF IsInf(a) THEN (IF IsInf(b) /\ b # a THEN NaN ELSE a)
    ELSE IF IsInf(b) THEN b
    ELSE LET g == GCD(a[2], b[2])
         IN  Norm(a[1] * (b[2] \div g) + b[1] * (a[2] \div g), a[2] * (b[2] \div g))

Sub(a, b) == Add(a, Neg(b))

Mul(a, b) ==
    IF IsNaN(a) \/ IsNaN(b) THEN NaN
    ELSE IF IsInf(a) \/ IsInf(b)
         THEN (IF Sign(a) = 0 \/ Sign(b) = 0 THEN NaN ELSE InfOf(Sign(a) * Sign(b)))
    ELSE LET g1 == GCD(AbsInt(a[1]), b[2])
             g2 == GCD(AbsInt(b[1]), a[2])
         IN  <<(a[1] \div g1) * (b[1] \div g2), (a[2] \div g2) * (b[2] \div g1)>>

\* division of a numpy double: x/0 is +-inf, 0/0 is nan, nothing is raised
Div(a, b) ==
    IF IsNaN(a) \/ IsNaN(b) THEN NaN
    ELSE IF IsInf(b) THEN (IF IsInf(a) THEN NaN ELSE R(0))
    ELSE IF Sign(b) = 0
         THEN (IF Sign(a) = 0 THEN NaN ELSE InfOf(Sign(a)))
    ELSE IF IsInf(a) THEN InfOf(Sign(a) * Sign(b))
    ELSE Mul(a, Norm(b[2], b[1]))

\* comparisons of doubles: every comparison with nan is false
Lt(a, b) ==
    IF IsNaN(a) \/ IsNaN(b) THEN FALSE
    ELSE IF IsInf(a) \/ IsInf(b)
         THEN (IF IsInf(a) /\ IsInf(b) THEN Sign(a) < Sign(b)
               ELSE IF IsInf(a) THEN Sign(a) < 0 ELSE Sign(b) > 0)
    ELSE LET g == GCD(a[2], b[2])
         IN  a[1] * (b[2] \div g) < b[1] * (a[2] \div g)

Gt(a, b) == Lt(b, a)
Le(a, b) == ~IsNaN(a) /\ ~IsNaN(b) /\ ~Lt(b, a)
Ge(a, b) == Le(b, a)
NotZero(a) == a # R(0)
AbsNum(a) == <<AbsInt(a[1]), a[2]>>

\* Python's max(a, b) and min(a, b): the first argument unless the second beats it
PyMax(a, b) == IF Gt(b, a) THEN b ELSE a
PyMin(a, b) == IF Lt(b, a) THEN b ELSE a

\* a ** -k for a finite a # 0 and k >= 0
RECURSIVE PowNeg(_, _)
PowNeg(a, k) == IF k = 0 THEN R(1) ELSE Mul(Norm(a[2], a[1]), PowNeg(a, k - 1))

RECURSIVE SumSeq(_)
SumSeq(s) == IF s = <<>> THEN R(0) ELSE Add(SumSeq(SubSeq(s, 1, Len(s) - 1)), s[Len(s)])

\* insertion sort, ascending
RECURSIVE Insert(_, _)
Insert(s, x) ==
    IF s = <<>> THEN <<x>>
    ELSE IF Lt(x, s[1]) THEN <<x>> \o s
    ELSE <<s[1]>> \o Insert(Tail(s), x)

RECURSIVE Sorted(_)
Sorted(s) == IF s = <<>> THEN <<>> ELSE Insert(Sorted(Tail(s)), s[1])

\* numpy.median: nan for an empty list
MedianSorted(t) ==
    IF t = <<>> THEN NaN
    ELSE IF Len(t) % 2 = 1 THEN t[(Len(t) + 1) \div 2]
    ELSE Div(Add(t[Len(t) \div 2], t[Len(t) \div 2 + 1]), R(2))

Median(s) == MedianSorted(Sorted(s))

\* numpy.mean: nan for an empty list
Mean(s) == IF s = <<>> THEN NaN ELSE Div(SumSeq(s), R(Len(s)))

-----------------------------------------------------------------------------
(* Statement tables.  A table is [columns |-> <<fiscal years>>,            *)
(* rows |-> line item name -> <<one value per column>>]: a DataFrame with  *)
(* one column per period (yfinance lists the most recent period first) and *)
(* one row per line item.  A period's label is its year, the '%Y' of its   *)
(* end date; labels of four digits order as their numbers do.              *)

Has(t, item) == item \in DOMAIN t.rows
ColIndex(t, year) == CHOOSE i \in 1..Len(t.columns) : t.columns[i] = year
Loc(t, item, year) == t.rows[item][ColIndex(t, year)]

Min2(a, b) == IF a < b THEN a ELSE b

RECURSIVE MaxYear(_)
MaxYear(s) == IF Len(s) = 1 THEN s[1]
              ELSE LET m == MaxYear(Tail(s)) IN IF m > s[1] THEN m ELSE s[1]

\* the years in ascending order
RECURSIVE Sorted2(_)
Sorted2(s) ==
    IF s = <<>> THEN <<>>
    ELSE LET m == MaxYear(s)
             i == CHOOSE k \in 1..Len(s) : s[k] = m
         IN  Append(Sorted2(SubSeq(s, 1, i - 1) \o SubSeq(s, i + 1, Len(s))), m)

\* the first name of fields that is a row of t, "" when there is none
RECURSIVE FirstPresent(_, _)
FirstPresent(t, fields) ==
    IF fields = <<>> THEN ""
    ELSE IF Has(t, fields[1]) THEN fields[1]
    ELSE FirstPresent(t, Tail(fields))

revenue_fields == <<"Revenue", "Total Revenue", "Sales", "Total Sales">>

-----------------------------------------------------------------------------
(* calculate_historical_metrics *)

HistRevenue(inc, year) ==
    IF Has(inc, "Total Revenue") THEN Loc(inc, "Total Revenue", year)
    ELSE LET f == FirstPresent(inc, revenue_fields)
         IN  IF f # "" THEN Loc(inc, f, year) ELSE R(0)

HistEbit(inc, year) ==
    IF Has(inc, "Operating Income") THEN Loc(inc, "Operating Income", year)
    ELSE IF Has(inc, "EBIT") THEN Loc(inc, "EBIT", year)
    ELSE IF Has(inc, "Gross Profit")
         THEN LET gross_profit == Loc(inc, "Gross Profit", year)
                  sga == IF Has(inc, "Selling General Administrative")
                         THEN Loc(inc, "Selling General Administrative", year) ELSE R(0)
                  rd == IF Has(inc, "Research Development")
                        THEN Loc(inc, "Research Development", year) ELSE R(0)
              IN  Sub(Sub(gross_profit, sga), rd)
    ELSE R(0)

HistNetIncome(inc, year) ==
    IF Has(inc, "Net Income") THEN Loc(inc, "Net Income", year) ELSE R(0)

HistTaxRate(inc, year, ebit) ==
    IF ebit # R(0)
    THEN IF Has(inc, "Tax Provision")
         THEN LET tax_expense == Loc(inc, "Tax Provision", year)
                  pretax_income == IF Has(inc, "Income Before Tax")
                                   THEN Loc(inc, "Income Before Tax", year) ELSE ebit
              IN  IF pretax_income # R(0) THEN Div(tax_expense, pretax_income)
                  ELSE Q(25, 100)
         ELSE Q(25, 100)
    ELSE Q(25, 100)

HistCapex(cf, year) ==
    IF Has(cf, "Capital Expenditure") THEN AbsNum(Loc(cf, "Capital Expenditure", year))
    ELSE R(0)

HistDepreciation(cf, year) ==
    IF Has(cf, "Depreciation") THEN Loc(cf, "Depreciation", year)
    ELSE IF Has(cf, "Depreciation And Amortization")
         THEN Loc(cf, "Depreciation And Amortization", year)
    ELSE R(0)

HistWorkingCapital(bal, year) ==
    IF Has(bal, "Total Current Assets") /\ Has(bal, "Total Current Liabilities")
    THEN Sub(Loc(bal, "Total Current Assets", year), Loc(bal, "Total Current Liabilities", year))
    ELSE R(0)

HistTotalDebt(bal, year) ==
    LET d1 == IF Has(bal, "Long Term Debt") THEN Loc(bal, "Long Term Debt", year) ELSE R(0)
        d2 == IF Has(bal, "Short Long Term Debt")
              THEN Loc(bal, "Short Long Term Debt", year) ELSE R(0)
    IN  Add(d1, d2)

HistCash(bal, year) ==
    IF Has(bal, "Cash And Cash Equivalents") THEN Loc(bal, "Cash And Cash Equivalents", year)
    ELSE IF Has(bal, "Cash") THEN Loc(bal, "Cash", year)
    ELSE R(0)

\* the record of one period, before the year-over-year pass
PeriodMetrics(inc, bal, cf, year) ==
    LET revenue == HistRevenue(inc, year)
        ebit == HistEbit(inc, year)
        capex == HistCapex(cf, year)
        depreciation == HistDepreciation(cf, year)
        nz == revenue # R(0)
    IN  [year |-> year,
         revenue |-> revenue,
         ebit |-> ebit,
         net_income |-> HistNetIncome(inc, year),
         tax_rate |-> HistTaxRate(inc, year, ebit),
         capex |-> capex,
         depreciation |-> depreciation,
         working_capital |-> HistWorkingCapital(bal, year),
         total_debt |-> HistTotalDebt(bal, year),
         cash |-> HistCash(bal, year),
         ebit_margin |-> IF nz THEN Div(ebit, revenue) ELSE R(0),
         capex_to_revenue |-> IF nz THEN Div(capex, revenue) ELSE R(0),
         depreciation_to_revenue |-> IF nz THEN Div(depreciation, revenue) ELSE R(0),
         has_yoy |-> FALSE,
         revenue_growth |-> R(0),
         wc_to_revenue_change |-> R(0)]

\* the most recent three periods: the first three columns
HistoricalYears(inc) == SubSeq(inc.columns, 1, Min2(3, Len(inc.columns)))

\* year-over-year pass: period i against period i - 1 of the dictionary's order
YearOverYear(cur, prev) ==
    LET wc_change == Sub(cur.working_capital, prev.working_capital)
        revenue_change == Sub(cur.revenue, prev.revenue)
    IN  [cur EXCEPT
           !.has_yoy = TRUE,
           !.revenue_growth = IF prev.revenue # R(0)
                              THEN Sub(Div(cur.revenue, prev.revenue), R(1)) ELSE R(0),
           !.wc_to_revenue_change = IF revenue_change # R(0)
                                    THEN Div(wc_change, revenue_change) ELSE R(0)]

\* self.historical: the periods' records in the order of the columns.  A key
\* absent from a record (revenue_growth of the first period) is has_yoy = FALSE.
HistoricalOf(inc, bal, cf) ==
    LET ys == HistoricalYears(inc)
        base == [i \in 1..Len(ys) |-> PeriodMetrics(inc, bal, cf, ys[i])]
    IN  [i \in 1..Len(ys) |-> IF i = 1 THEN base[i] ELSE YearOverYear(base[i], base[i - 1])]

-----------------------------------------------------------------------------
(* generate_projections *)

Field(hist, f) == [i \in 1..Len(hist) |-> hist[i][f]]
YearsList(hist) == Field(hist, "year")
Latest(hist) == LET y == MaxYear(YearsList(hist))
                IN  hist[CHOOSE i \in 1..Len(hist) : hist[i].year = y]

WcRatioKept(r) == r # R(0) /\ Lt(AbsNum(r), R(1))
TaxRateKept(r) == Lt(R(0), r) /\ Lt(r, Q(1, 2))

\* the clamp without its upper end
ClampGrowthFloorOnly(g) == PyMax(Q(1, 100), g)

\* clamp of the averaged revenue growth: max(0.01, min(0.15, g))
ClampGrowth(g) == PyMax(Q(1, 100), PyMin(Q(15, 100), g))

\* avg_metrics of generate_projections, for a historical of at least one period
AvgMetrics(hist, params) ==
    LET growth_rates == Tail(Field(hist, "revenue_growth"))
        ebit_margins == Field(hist, "ebit_margin")
        capex_ratios == Field(hist, "capex_to_revenue")
        depreciation_ratios == Field(hist, "depreciation_to_revenue")
        wc_ratios == Tail(Field(hist, "wc_to_revenue_change"))
        tax_rates == Field(hist, "tax_rate")
    IN  [revenue_growth |->
            ClampGrowth(IF growth_rates # <<>> THEN Median(SelectSeq(growth_rates, NotZero))
                        ELSE Q(3, 100)),
         ebit_margin |->
            IF ebit_margins # <<>> THEN Median(SelectSeq(ebit_margins, NotZero))
            ELSE Q(1, 10),
         capex_to_revenue |->
            IF capex_ratios # <<>> THEN Median(SelectSeq(capex_ratios, NotZero))
            ELSE params.capex_to_revenue,
         depreciation_to_revenue |->
            IF depreciation_ratios # <<>> THEN Median(SelectSeq(depreciation_ratios, NotZero))
            ELSE Q(3, 100),
         wc_to_revenue_change |->
            IF wc_ratios # <<>> THEN Median(SelectSeq(wc_ratios, WcRatioKept))
            ELSE params.working_capital_to_revenue_change,
         tax_rate |->
            IF tax_rates # <<>> THEN Mean(SelectSeq(tax_rates, TaxRateKept))
            ELSE Q(25, 100)]

\* labels that start at the latest historical year itself
ProjectionYearsFromLatest(hist, n) == [i \in 1..n |-> MaxYear(YearsList(hist)) + i - 1]

\* labels of the projected years: the n years after the latest historical year
ProjectionYearsOf(hist, n) == [i \in 1..n |-> MaxYear(YearsList(hist)) + i]

\* the blend with the weight i / n
GrowthRateBySpan(i, n, avg_growth, terminal_growth_rate) ==
    Add(Mul(avg_growth, Sub(R(1), Q(i, n))), Mul(terminal_growth_rate, Q(i, n)))

\* growth rate of projected year i (0-indexed) of n
GrowthRate(i, n, avg_growth, terminal_growth_rate) ==
    IF i = 0 THEN avg_growth
    ELSE LET weight == IF n > 1 THEN Q(i, n - 1) ELSE R(1)
         IN  Add(Mul(avg_growth, Sub(R(1), weight)), Mul(terminal_growth_rate, weight))

\* revenue of projected year i (1-indexed); year 0 is the latest historical year
RECURSIVE ProjectedRevenue(_, _, _, _, _)
ProjectedRevenue(i, n, latest_revenue, avg_growth, terminal_growth_rate) ==
    IF i = 0 THEN latest_revenue
    ELSE Mul(ProjectedRevenue(i - 1, n, latest_revenue, avg_growth, terminal_growth_rate),
             Add(R(1), GrowthRate(i - 1, n, avg_growth, terminal_growth_rate)))

\* the free cash flow before the change in working capital
FreeCashFlowBeforeWorkingCapital(nopat, depreciation, capex, working_capital_change) ==
    Sub(Add(nopat, depreciation), capex)

FreeCashFlow(nopat, depreciation, capex, working_capital_change) ==
    Sub(Sub(Add(nopat, depreciation), capex), working_capital_change)

\* one projected year, from its revenue lines
ProjectedYearFrom(label, growth_rate, revenue, avg, ebit, depreciation, capex, wc_change) ==
    [year |-> label,
     revenue |-> revenue,
     revenue_growth |-> growth_rate,
     ebit_margin |-> avg.ebit_margin,
     ebit |-> ebit,
     depreciation |-> depreciation,
     capex |-> capex,
     working_capital_change |-> wc_change,
     tax_rate |-> avg.tax_rate,
     taxes |-> Mul(ebit, avg.tax_rate),
     nopat |-> Sub(ebit, Mul(ebit, avg.tax_rate)),
     fcf |-> FreeCashFlow(Sub(ebit, Mul(ebit, avg.tax_rate)), depreciation, capex,
                          wc_change)]

ProjectedYear(label, growth_rate, revenue, prev_revenue, avg) ==
    ProjectedYearFrom(label, growth_rate, revenue, avg,
                      Mul(revenue, avg.ebit_margin),
                      Mul(revenue, avg.depreciation_to_revenue),
                      Mul(revenue, avg.capex_to_revenue),
                      Mul(Sub(revenue, prev_revenue), avg.wc_to_revenue_change))

ProjectionsFrom(avg, latest_revenue, labels, n, terminal_growth_rate) ==
    [i \in 1..n |->
        ProjectedYear(labels[i],
            GrowthRate(i - 1, n, avg.revenue_growth, terminal_growth_rate),
            ProjectedRevenue(i, n, latest_revenue, avg.revenue_growth, terminal_growth_rate),
            ProjectedRevenue(i - 1, n, latest_revenue, avg.revenue_growth,
                             terminal_growth_rate),
            avg)]

\* self.projections, in the order of self.projection_years
ProjectionsOf(hist, params) ==
    ProjectionsFrom(AvgMetrics(hist, params), Latest(hist).revenue,
                    ProjectionYearsOf(hist, params.projection_years),
                    params.projection_years, params.terminal_growth_rate)

-----------------------------------------------------------------------------
(* calculate_wacc *)

\* the spread with a margin on a step counted to the step above
CreditSpreadInclusive(latest_ebit_margin) ==
    IF Ge(latest_ebit_margin, Q(2, 10)) THEN Q(1, 100)
    ELSE IF Ge(latest_ebit_margin, Q(1, 10)) THEN Q(2, 100)
    ELSE IF Ge(latest_ebit_margin, R(0)) THEN Q(3, 100)
    ELSE Q(5, 100)

CreditSpread(latest_ebit_margin) ==
    IF Gt(latest_ebit_margin, Q(2, 10)) THEN Q(1, 100)
    ELSE IF Gt(latest_ebit_margin, Q(1, 10)) THEN Q(2, 100)
    ELSE IF Gt(latest_ebit_margin, R(0)) THEN Q(3, 100)
    ELSE Q(5, 100)

\* the weights without the guard on a total capital of 0
CapitalWeightsUnguarded(market_value_equity, total_debt) ==
    <<Div(market_value_equity, Add(market_value_equity, total_debt)),
      Div(total_debt, Add(market_value_equity, total_debt))>>

\* <<weight_equity, weight_debt>>
CapitalWeights(market_value_equity, total_debt) ==
    LET total_capital == Add(market_value_equity, total_debt)
    IN  IF Gt(total_capital, R(0))
        THEN <<Div(market_value_equity, total_capital), Div(total_debt, total_capital)>>
        ELSE <<R(1), R(0)>>

\* self.wacc_components, for a historical of at least one period
WaccComponentsOf(hist, info, b, params) ==
    LET cost_of_equity == Add(params.risk_free_rate, Mul(b, params.market_risk_premium))
        latest == Latest(hist)
        w == CapitalWeights(info.market_cap, latest.total_debt)
        pre_tax_cost_of_debt == Add(params.risk_free_rate, CreditSpread(latest.ebit_margin))
        cost_of_debt == Mul(pre_tax_cost_of_debt, Sub(R(1), latest.tax_rate))
    IN  [risk_free_rate |-> params.risk_free_rate,
         beta |-> b,
         market_risk_premium |-> params.market_risk_premium,
         cost_of_equity |-> cost_of_equity,
         pre_tax_cost_of_debt |-> pre_tax_cost_of_debt,
         tax_rate |-> latest.tax_rate,
         after_tax_cost_of_debt |-> cost_of_debt,
         weight_equity |-> w[1],
         weight_debt |-> w[2],
         wacc |-> Add(Mul(w[1], cost_of_equity), Mul(w[2], cost_of_debt))]

-----------------------------------------------------------------------------
(* calculate_dcf *)

Range(s) == {s[i] : i \in 1..Len(s)}

\* pv_factors: (1 + wacc) ** -(i + 1) for i in range(n)
PvFactors(w, n) == [i \in 1..n |-> PowNeg(Add(R(1), w), i)]

\* the terminal value of the last free cash flow itself, not grown one year
TerminalValueUngrown(last_fcf, w, terminal_growth_rate) ==
    Div(last_fcf, Sub(w, terminal_growth_rate))

\* terminal value: Gordon growth on the last projected free cash flow
TerminalValue(last_fcf, w, terminal_growth_rate) ==
    LET terminal_fcf == Mul(last_fcf, Add(R(1), terminal_growth_rate))
    IN  Div(terminal_fcf, Sub(w, terminal_growth_rate))

\* the bridge with cash taken off instead of added
EquityValueLessCash(enterprise_value, debt, cash) == Sub(Sub(enterprise_value, debt), cash)

EquityValue(enterprise_value, debt, cash) == Add(Sub(enterprise_value, debt), cash)

PerShareValue(equity_value, shares_outstanding) ==
    IF Gt(shares_outstanding, R(0)) THEN Div(equity_value, shares_outstanding) ELSE R(0)

UpsidePercentage(per_share_value, current_price) ==
    IF Gt(current_price, R(0))
    THEN Mul(Sub(Div(per_share_value, current_price), R(1)), R(100))
    ELSE R(0)

\* the thresholds taken inclusively
RecommendationInclusive(upside_percentage) ==
    IF Ge(upside_percentage, R(15)) THEN "BUY"
    ELSE IF Le(upside_percentage, R(-15)) THEN "SELL"
    ELSE "HOLD"

Recommendation(upside_percentage) ==
    IF Gt(upside_percentage, R(15)) THEN "BUY"
    ELSE IF Lt(upside_percentage, R(-15)) THEN "SELL"
    ELSE "HOLD"

PvFcf(projs, w) == [i \in 1..Len(projs) |-> Mul(projs[i].fcf, PvFactors(w, Len(projs))[i])]

\* a dictionary whose every key holds the first value
AtKeyFirst(keys, values, y) == values[1]

\* the value of the key y of a dictionary built from the keys and the values
AtKey(keys, values, y) == values[CHOOSE i \in 1..Len(keys) : keys[i] = y]

\* self.dcf_results from the discounted cash flows and the terminal value
DcfRecord(years, fcf_values, pv_fcf, terminal_value, pv_terminal_value, latest, info, w, params) ==
    [projection_years |-> years,
     wacc |-> w,
     terminal_growth_rate |-> params.terminal_growth_rate,
     fcf_projections |-> [y \in Range(years) |-> AtKey(years, fcf_values, y)],
     pv_fcf |-> [y \in Range(years) |-> AtKey(years, pv_fcf, y)],
     sum_pv_fcf |-> SumSeq(pv_fcf),
     terminal_value |-> terminal_value,
     pv_terminal_value |-> pv_terminal_value,
     enterprise_value |-> Add(SumSeq(pv_fcf), pv_terminal_value),
     debt |-> latest.total_debt,
     cash |-> latest.cash,
     equity_value |->
        EquityValue(Add(SumSeq(pv_fcf), pv_terminal_value), latest.total_debt, latest.cash),
     shares_outstanding |-> info.shares_outstanding,
     per_share_value |->
        PerShareValue(EquityValue(Add(SumSeq(pv_fcf), pv_terminal_value),
                                  latest.total_debt, latest.cash),
                      info.shares_outstanding),
     current_price |-> info.current_price,
     upside_percentage |->
        UpsidePercentage(
            PerShareValue(EquityValue(Add(SumSeq(pv_fcf), pv_terminal_value),
                                      latest.total_debt, latest.cash),
                          info.shares_outstanding),
            info.current_price),
     recommendation |->
        Recommendation(UpsidePercentage(
            PerShareValue(EquityValue(Add(SumSeq(pv_fcf), pv_terminal_value),
                                      latest.total_debt, latest.cash),
                          info.shares_outstanding),
            info.current_price))]

\* self.dcf_results, from the stored projections (a nonempty sequence), the
\* stored periods, the discount rate w (self.wacc) and the parameters.  A
\* dictionary keyed by the projected years is a function on their labels.
DcfResultsOf(years, projs, hist, info, w, params) ==
    DcfRecord(years,
              [i \in 1..Len(years) |-> projs[i].fcf],
              PvFcf(projs, w),
              TerminalValue(projs[Len(years)].fcf, w, params.terminal_growth_rate),
              Mul(TerminalValue(projs[Len(years)].fcf, w, params.terminal_growth_rate),
                  PvFactors(w, Len(years))[Len(years)]),
              Latest(hist), info, w, params)

-----------------------------------------------------------------------------
(* sensitivity_analysis *)

wacc_range == Q(2, 100)
growth_range == Q(1, 100)
None == <<>>

\* base - r, base - r/2, base, base + r/2, base + r
Axis(base, r) ==
    <<Sub(base, r), Sub(base, Div(r, R(2))), base, Add(base, Div(r, R(2))), Add(base, r)>>

\* the growth axis without the cap
GrowthValuesUncapped(base_wacc, base_growth) == Axis(base_growth, growth_range)

\* the growth axis capped at the base WACC itself
GrowthValuesCappedAtWacc(base_wacc, base_growth) ==
    [j \in 1..5 |-> PyMin(Axis(base_growth, growth_range)[j], base_wacc)]

\* the growth axis, each value capped at the base WACC less 0.005
GrowthValues(base_wacc, base_growth) ==
    LET raw == Axis(base_growth, growth_range)
        w == Axis(base_wacc, wacc_range)[3]
    IN  [j \in 1..5 |-> PyMin(raw[j], Sub(w, Q(5, 1000)))]

\* a cell left out only when its growth is above its WACC
CellSkippedAbove(w, growth) == Gt(growth, w)

\* a cell is left out (None) when its growth is not below its WACC
CellSkipped(w, growth) == Ge(growth, w)

\* the per-share value of a cell whose terminal value is discounted one year more
CellValueLateTerminal(w, growth, years, projs, hist, info) ==
    LET n == Len(years)
        terminal_value == Div(Mul(projs[n].fcf, Add(R(1), growth)), Sub(w, growth))
        pv_terminal_value == Mul(terminal_value, PowNeg(Add(R(1), w), n + 1))
        pv_fcf == [i \in 1..n |-> Mul(projs[i].fcf, PowNeg(Add(R(1), w), i))]
        latest == Latest(hist)
        equity_value == Add(Sub(Add(SumSeq(pv_fcf), pv_terminal_value), latest.total_debt),
                            latest.cash)
    IN  IF Gt(info.shares_outstanding, R(0))
        THEN Div(equity_value, info.shares_outstanding)
        ELSE R(0)

\* the per-share value of one cell that is not left out
CellValue(w, growth, years, projs, hist, info) ==
    LET n == Len(years)
        last_fcf == projs[n].fcf
        terminal_fcf == Mul(last_fcf, Add(R(1), growth))
        terminal_value == Div(terminal_fcf, Sub(w, growth))
        pv_factor == PowNeg(Add(R(1), w), n)
        pv_terminal_value == Mul(terminal_value, pv_factor)
        pv_fcf == [i \in 1..n |-> Mul(projs[i].fcf, PowNeg(Add(R(1), w), i))]
        sum_pv_fcf == SumSeq(pv_fcf)
        enterprise_value == Add(sum_pv_fcf, pv_terminal_value)
        latest == Latest(hist)
        equity_value == Add(Sub(enterprise_value, latest.total_debt), latest.cash)
    IN  IF Gt(info.shares_outstanding, R(0))
        THEN Div(equity_value, info.shares_outstanding)
        ELSE R(0)

Cell(w, growth, years, projs, hist, info) ==
    IF CellSkipped(w, growth) THEN None
    ELSE CellValue(w, growth, years, projs, hist, info)

\* self.sensitivity_results, once every cell has been computed
SensitivityOf(base_wacc, years, projs, hist, info, params) ==
    LET wacc_values == Axis(base_wacc, wacc_range)
        growth_values == GrowthValues(base_wacc, params.terminal_growth_rate)
    IN  [wacc_values |-> wacc_values,
         growth_values |-> growth_values,
         sensitivity_matrix |->
            [i \in 1..5 |-> [j \in 1..5 |->
                Cell(wacc_values[i], growth_values[j], years, projs, hist, info)]]]

-----------------------------------------------------------------------------
(* Inputs: statement bundles, market snapshots, parameter values *)

MaxProjYears == 2
MaxParamChanges == 1

NoRows == <<>>

\* no fiscal period at all
EmptyBundle ==
    [income_stmt |-> [columns |-> <<>>, rows |-> NoRows],
     balance_sheet |-> [columns |-> <<>>, rows |-> NoRows],
     cash_flow |-> [columns |-> <<>>, rows |-> NoRows]]

\* one period, no capital expenditure, working capital or cash rows
SparseBundle ==
    [income_stmt |-> [columns |-> <<2023>>,
        rows |-> ("Total Revenue" :> <<R(10)>>) @@ ("Operating Income" :> <<R(2)>>)
                 @@ ("Net Income" :> <<R(1)>>) @@ ("Tax Provision" :> <<Q(1, 2)>>)],
     balance_sheet |-> [columns |-> <<2023>>, rows |-> NoRows],
     cash_flow |-> [columns |-> <<2023>>,
        rows |-> ("Depreciation" :> <<Q(1, 2)>>)]]

\* two periods in chronological order, no debt
TwoPeriodBundle ==
    [income_stmt |-> [columns |-> <<2022, 2023>>,
        rows |-> ("Total Revenue" :> <<R(10), R(11)>>)
                 @@ ("Operating Income" :> <<R(2), Q(11, 5)>>)
                 @@ ("Net Income" :> <<Q(3, 2), Q(33, 20)>>)
                 @@ ("Tax Provision" :> <<Q(1, 2), Q(11, 20)>>)
                 @@ ("Income Before Tax" :> <<R(2), Q(11, 5)>>)],
     balance_sheet |-> [columns |-> <<2022, 2023>>,
        rows |-> ("Total Current Assets" :> <<R(3), Q(7, 2)>>)
                 @@ ("Total Current Liabilities" :> <<R(2), R(2)>>)
                 @@ ("Cash And Cash Equivalents" :> <<R(1), R(1)>>)],
     cash_flow |-> [columns |-> <<2022, 2023>>,
        rows |-> ("Capital Expenditure" :> <<R(-1), Q(-11, 10)>>)
                 @@ ("Depreciation" :> <<Q(1, 2), Q(11, 20)>>)]]

\* three periods, most recent first, with debt; no tax charged in the latest
ThreePeriodBundle ==
    [income_stmt |-> [columns |-> <<2023, 2022, 2021>>,
        rows |-> ("Revenue" :> <<R(10), R(11), Q(121, 10)>>)
                 @@ ("EBIT" :> <<R(2), Q(11, 5), Q(121, 50)>>)
                 @@ ("Net Income" :> <<R(2), Q(33, 20), Q(363, 200)>>)
                 @@ ("Tax Provision" :> <<R(0), Q(11, 20), Q(121, 200)>>)],
     balance_sheet |-> [columns |-> <<2023, 2022, 2021>>,
        rows |-> ("Total Current Assets" :> <<R(3), Q(7, 2), Q(81, 20)>>)
                 @@ ("Total Current Liabilities" :> <<R(2), R(2), R(2)>>)
                 @@ ("Long Term Debt" :> <<R(6), R(6), R(5)>>)
                 @@ ("Short Long Term Debt" :> <<R(4), R(3), R(3)>>)
                 @@ ("Cash" :> <<R(1), R(1), R(1)>>)],
     cash_flow |-> [columns |-> <<2023, 2022, 2021>>,
        rows |-> ("Capital Expenditure" :> <<R(-1), Q(-11, 10), Q(-121, 100)>>)
                 @@ ("Depreciation And Amortization" :> <<Q(1, 2), Q(11, 20), Q(121, 200)>>)]]

\* market snapshots: a quoted company, and one whose figures are all absent (0)
Quoted == [market_cap |-> R(10), shares_outstanding |-> R(10), current_price |-> R(1)]
Unquoted == [market_cap |-> R(0), shares_outstanding |-> R(0), current_price |-> R(0)]

\* the companies analysed: statement tables with a market snapshot
Companies ==
    {[tables |-> EmptyBundle, info |-> Quoted],
     [tables |-> SparseBundle, info |-> Unquoted],
     [tables |-> TwoPeriodBundle, info |-> Quoted],
     [tables |-> TwoPeriodBundle, info |-> Unquoted],
     [tables |-> ThreePeriodBundle, info |-> Quoted]}

TerminalGrowthRates == {Q(2, 100), Q(6, 100)}
RiskFreeRates == {Q(4, 100), Q(2, 100)}
MarketRiskPremiums == {Q(6, 100), Q(2, 100)}

\* the values a parameter may be given
ParamValues(key) ==
    CASE key = "projection_years" -> 1..MaxProjYears
      [] key = "terminal_growth_rate" -> TerminalGrowthRates
      [] key = "risk_free_rate" -> RiskFreeRates
      [] key = "market_risk_premium" -> MarketRiskPremiums

TunedKeys == {"projection_years", "terminal_growth_rate", "risk_free_rate",
              "market_risk_premium"}

\* dcf_params as the constructor leaves it, with the four tuned parameters given
DcfParams(n, g, rf, mrp) ==
    [projection_years |-> n,
     terminal_growth_rate |-> g,
     risk_free_rate |-> rf,
     market_risk_premium |-> mrp,
     capex_to_revenue |-> Q(2, 100),
     working_capital_to_revenue_change |-> Q(26, 100),
     acquisition_to_revenue |-> Q(2, 100),
     dividend_payout |-> Q(30, 100),
     share_repurchases |-> Q(25, 100)]

\* custom_params = None, or an empty dictionary
NoCustomParams == <<>>

\* configurations the analysis is started with
StartParams ==
    {DcfParams(MaxProjYears, Q(2, 100), Q(4, 100), Q(6, 100)),
     DcfParams(1, Q(6, 100), Q(2, 100), Q(2, 100))}

-----------------------------------------------------------------------------
(* State *)

VARIABLES
    income_stmt, balance_sheet, cash_flow,  \* the statement tables
    company_info,                           \* market_cap, shares_outstanding, current_price
    beta,
    custom_params,          \* the custom_params run_dcf_analysis was called with
    dcf_params,
    attrs,                  \* the attributes set after construction: hasattr(self, a)
    historical,             \* periods' records in insertion order
    projection_years,       \* labels of the projected years
    projections,            \* projected years' records, in the order of their labels
    wacc_components,
    wacc,
    dcf_results,
    sensitivity_results,
    pc,                     \* "idle", or the stage run_full_analysis runs next
    last,                   \* the operation begun most recently and its outcome
    rerun,                  \* that operation is a run_full_analysis begun right
                            \* after a run_full_analysis that returned True
    param_changes           \* assignments to dcf_params so far

inputs == <<income_stmt, balance_sheet, cash_flow, company_info, beta, custom_params>>
object == <<attrs, historical, projection_years, projections, wacc_components, wacc,
            dcf_results, sensitivity_results>>
vars == <<inputs, dcf_params, object, pc, last, rerun, param_changes>>

\* the object's computed fields as one value; exc is the exception in flight
Self ==
    [attrs |-> attrs, historical |-> historical, projection_years |-> projection_years,
     projections |-> projections, wacc_components |-> wacc_components, wacc |-> wacc,
     dcf_results |-> dcf_results, sensitivity_results |-> sensitivity_results,
     exc |-> ""]

Store(s) ==
    /\ attrs' = s.attrs
    /\ historical' = s.historical
    /\ projection_years' = s.projection_years
    /\ projections' = s.projections
    /\ wacc_components' = s.wacc_components
    /\ wacc' = s.wacc
    /\ dcf_results' = s.dcf_results
    /\ sensitivity_results' = s.sensitivity_results

Raise(s, e) == [s EXCEPT !.exc = e]

Init ==
    /\ \E c \in Companies :
          /\ income_stmt = c.tables.income_stmt
          /\ balance_sheet = c.tables.balance_sheet
          /\ cash_flow = c.tables.cash_flow
          /\ company_info = c.info
    /\ beta = R(1)
    /\ custom_params = NoCustomParams
    /\ dcf_params \in StartParams
    /\ attrs = {}
    /\ historical = <<>>
    /\ projection_years = <<>>
    /\ projections = <<>>
    /\ wacc_components = <<>>
    /\ wacc = <<>>
    /\ dcf_results = <<>>
    /\ sensitivity_results = <<>>
    /\ pc = "idle"
    /\ last = [call |-> "__init__", outcome |-> "ok"]
    /\ rerun = FALSE
    /\ param_changes = 0

-----------------------------------------------------------------------------
(* The methods, as functions of the object's fields *)

calculate_historical_metrics(s) ==
    [s EXCEPT !.attrs = @ \cup {"historical"},
              !.historical = HistoricalOf(income_stmt, balance_sheet, cash_flow)]

\* projections whose first-year growth is the growth stored for the last year
\* projected before, when there is one
generate_projections_from_stored(s) ==
    IF "historical" \notin s.attrs THEN Raise(s, "AttributeError")
    ELSE IF s.historical = <<>> THEN Raise(s, "ValueError")
    ELSE [s EXCEPT !.attrs = @ \cup {"projection_years"},
                   !.projection_years =
                        ProjectionYearsOf(s.historical, dcf_params.projection_years),
                   !.projections =
                        ProjectionsFrom(
                            [AvgMetrics(s.historical, dcf_params) EXCEPT !.revenue_growth =
                                IF s.projections # <<>>
                                THEN s.projections[Len(s.projections)].revenue_growth
                                ELSE @],
                            Latest(s.historical).revenue,
                            ProjectionYearsOf(s.historical, dcf_params.projection_years),
                            dcf_params.projection_years,
                            dcf_params.terminal_growth_rate)]

generate_projections(s) ==
    IF "historical" \notin s.attrs THEN Raise(s, "AttributeError")
    ELSE IF s.historical = <<>> THEN Raise(s, "ValueError")
    ELSE [s EXCEPT !.attrs = @ \cup {"projection_years"},
                   !.projection_years =
                        ProjectionYearsOf(s.historical, dcf_params.projection_years),
                   !.projections = ProjectionsOf(s.historical, dcf_params)]

\* calculate_wacc writing the default tax rate into a latest period that has none
calculate_wacc_defaulting_tax(s) ==
    IF "historical" \notin s.attrs THEN Raise(s, "AttributeError")
    ELSE IF s.historical = <<>> THEN Raise(s, "ValueError")
    ELSE [s EXCEPT !.attrs = @ \cup {"wacc_components"},
                   !.historical =
                        [i \in 1..Len(s.historical) |->
                            IF s.historical[i].year = MaxYear(YearsList(s.historical))
                               /\ s.historical[i].tax_rate = R(0)
                            THEN [s.historical[i] EXCEPT !.tax_rate = Q(25, 100)]
                            ELSE s.historical[i]],
                   !.wacc_components =
                        WaccComponentsOf(s.historical, company_info, beta, dcf_params)]

calculate_wacc(s) ==
    IF "historical" \notin s.attrs THEN Raise(s, "AttributeError")
    ELSE IF s.historical = <<>> THEN Raise(s, "ValueError")
    ELSE [s EXCEPT !.attrs = @ \cup {"wacc_components"},
                   !.wacc_components =
                        WaccComponentsOf(s.historical, company_info, beta, dcf_params)]

\* The steps below are statements of a method run one after another: a step
\* does nothing when an exception is in flight.

\* self.wacc = the stored WACC
UseStoredWacc(s) ==
    IF s.exc # "" THEN s
    ELSE [s EXCEPT !.attrs = @ \cup {"wacc"}, !.wacc = s.wacc_components.wacc]

\* the discount rate calculate_dcf works with: computed only when none is stored
DcfDiscountRate(s) ==
    IF "wacc_components" \notin s.attrs THEN UseStoredWacc(calculate_wacc(s))
    ELSE UseStoredWacc(s)

\* calculate_dcf once self.wacc is set
DcfValuation(t) ==
    IF t.exc # "" THEN t
    ELSE IF "projection_years" \notin t.attrs THEN Raise(t, "AttributeError")
    ELSE [t EXCEPT !.dcf_results =
              DcfResultsOf(t.projection_years, t.projections, t.historical,
                           company_info, t.wacc, dcf_params)]

calculate_dcf(s) == DcfValuation(DcfDiscountRate(s))

\* sensitivity_analysis regenerating the projections after its grid
sensitivity_analysis_reprojecting(s) ==
    IF "wacc" \notin s.attrs \/ "projection_years" \notin s.attrs
    THEN Raise(s, "AttributeError")
    ELSE [s EXCEPT !.attrs = @ \cup {"sensitivity_results"},
                   !.sensitivity_results =
                        SensitivityOf(s.wacc, s.projection_years, s.projections,
                                      s.historical, company_info, dcf_params),
                   !.projection_years =
                        ProjectionYearsOf(s.historical, dcf_params.projection_years),
                   !.projections = ProjectionsOf(s.historical, dcf_params)]

sensitivity_analysis(s) ==
    IF "wacc" \notin s.attrs THEN Raise(s, "AttributeError")
    ELSE LET wacc_values == Axis(s.wacc, wacc_range)
             growth_values == GrowthValues(s.wacc, dcf_params.terminal_growth_rate)
         IN  IF "projection_years" \in s.attrs
             THEN [s EXCEPT !.attrs = @ \cup {"sensitivity_results"},
                            !.sensitivity_results =
                                SensitivityOf(s.wacc, s.projection_years, s.projections,
                                              s.historical, company_info, dcf_params)]
             ELSE IF \E i, j \in 1..5 : ~CellSkipped(wacc_values[i], growth_values[j])
             THEN Raise(s, "AttributeError")
             ELSE [s EXCEPT !.attrs = @ \cup {"sensitivity_results"},
                            !.sensitivity_results =
                                [wacc_values |-> wacc_values,
                                 growth_values |-> growth_values,
                                 sensitivity_matrix |-> [i \in 1..5 |-> [j \in 1..5 |-> None]]]]

\* the stages generate_report runs when their outputs are missing
NeedHistorical(s) ==
    IF "historical" \notin s.attrs THEN calculate_historical_metrics(s) ELSE s

NeedProjections(t) ==
    IF t.exc # "" THEN t
    ELSE IF t.projections = <<>> THEN generate_projections(t) ELSE t

NeedDcf(t) ==
    IF t.exc # "" THEN t
    ELSE IF t.dcf_results = <<>> THEN calculate_dcf(t) ELSE t

NeedSensitivity(t) ==
    IF t.exc # "" THEN t
    ELSE IF "sensitivity_results" \notin t.attrs \/ t.sensitivity_results = <<>>
    THEN sensitivity_analysis(t) ELSE t

\* the year before the latest one, of at least two
PrevPeriod(hist) ==
    hist[CHOOSE i \in 1..Len(hist) :
            hist[i].year = Sorted2(YearsList(hist))[Len(hist) - 1]]

\* the report's "Revenue Growth" row divides by the revenue of the year before
\* the latest one
ReportBody(t) ==
    IF t.exc # "" THEN t
    ELSE IF Len(t.historical) > 1 /\ PrevPeriod(t.historical).revenue = R(0)
    THEN Raise(t, "ZeroDivisionError")
    ELSE t

\* generate_report: the stages not run yet, then the report itself
generate_report(s) ==
    ReportBody(NeedSensitivity(NeedDcf(NeedProjections(NeedHistorical(s)))))

\* plot_charts draws from the stored results and changes none of them
plot_charts(s) == s

-----------------------------------------------------------------------------
(* Operations *)

Finish(call, t) ==
    /\ Store(t)
    /\ last' = [call |-> call, outcome |-> IF t.exc = "" THEN "ok" ELSE t.exc]
    /\ rerun' = FALSE
    /\ UNCHANGED <<inputs, dcf_params, pc, param_changes>>

CallCalculateHistoricalMetrics ==
    pc = "idle" /\ Finish("calculate_historical_metrics", calculate_historical_metrics(Self))

CallGenerateProjections ==
    pc = "idle" /\ Finish("generate_projections", generate_projections(Self))

CallCalculateWacc ==
    pc = "idle" /\ Finish("calculate_wacc", calculate_wacc(Self))

CallCalculateDcf ==
    pc = "idle" /\ Finish("calculate_dcf", calculate_dcf(Self))

CallSensitivityAnalysis ==
    pc = "idle" /\ Finish("sensitivity_analysis", sensitivity_analysis(Self))

CallGenerateReport ==
    pc = "idle" /\ Finish("generate_report", generate_report(Self))

\* dcf_model.dcf_params[key] = value
SetParam ==
    /\ pc = "idle"
    /\ param_changes < MaxParamChanges
    /\ \E key \in TunedKeys : \E value \in ParamValues(key) :
          /\ value # dcf_params[key]
          /\ dcf_params' = [dcf_params EXCEPT ![key] = value]
    /\ param_changes' = param_changes + 1
    /\ last' = [call |-> "set_param", outcome |-> "ok"]
    /\ rerun' = FALSE
    /\ UNCHANGED <<inputs, object, pc>>

\* the stages with the valuation before the WACC
StagesValuationFirst ==
    <<"historical", "projections", "dcf", "wacc", "sensitivity", "report", "charts">>

\* run_full_analysis: the stages in order inside one try block
Stages == <<"historical", "projections", "wacc", "dcf", "sensitivity", "report", "charts">>
StageIndex(name) == CHOOSE i \in 1..Len(Stages) : Stages[i] = name

RunStage(name, s) ==
    CASE name = "historical" -> calculate_historical_metrics(s)
      [] name = "projections" -> generate_projections(s)
      [] name = "wacc" -> calculate_wacc(s)
      [] name = "dcf" -> calculate_dcf(s)
      [] name = "sensitivity" -> sensitivity_analysis(s)
      [] name = "report" -> generate_report(s)
      [] name = "charts" -> plot_charts(s)

RunFullAnalysisBegin ==
    /\ pc = "idle"
    /\ pc' = Stages[1]
    /\ last' = [call |-> "run_full_analysis", outcome |-> "running"]
    /\ rerun' = (last = [call |-> "run_full_analysis", outcome |-> "True"])
    /\ UNCHANGED <<inputs, dcf_params, object, param_changes>>

\* a run that goes on to the next stage after a stage raised
StageDoneCarryingOn(t, k) ==
    /\ Store(t)
    /\ IF k = Len(Stages)
       THEN pc' = "idle" /\ last' = [call |-> "run_full_analysis", outcome |-> "True"]
       ELSE pc' = Stages[k + 1] /\ UNCHANGED last
    /\ UNCHANGED rerun

\* the next stage of the run; an exception ends the run with False, the last
\* stage ends it with True
StageDone(t, k) ==
    /\ Store(t)
    /\ IF t.exc # ""
       THEN pc' = "idle" /\ last' = [call |-> "run_full_analysis", outcome |-> "False"]
       ELSE IF k = Len(Stages)
       THEN pc' = "idle" /\ last' = [call |-> "run_full_analysis", outcome |-> "True"]
       ELSE pc' = Stages[k + 1] /\ UNCHANGED last
    /\ UNCHANGED rerun

RunFullAnalysisStep ==
    /\ pc # "idle"
    /\ StageDone(RunStage(pc, Self), StageIndex(pc))
    /\ UNCHANGED <<inputs, dcf_params, param_changes>>

Next ==
    \/ CallCalculateHistoricalMetrics
    \/ CallGenerateProjections
    \/ CallCalculateWacc
    \/ CallCalculateDcf
    \/ CallSensitivityAnalysis
    \/ CallGenerateReport
    \/ SetParam
    \/ RunFullAnalysisBegin
    \/ RunFullAnalysisStep

Spec == Init /\ [][Next]_vars

-----------------------------------------------------------------------------
(* The valuation step of calculate_dcf on its own: enterprise value to
   recommendation, applied to discounted cash flows and market snapshots drawn
   from grids *)

\* the discounted projected cash flow and the discounted terminal value
DiscountedFlows == {Q(-3, 2), R(0), Q(3, 2), R(2), NaN}
DiscountedTerminals == {R(0), R(10), R(100), PosInf}
SharesAndPrices == {R(0), R(1), R(10)}

InitValuation ==
    /\ income_stmt = TwoPeriodBundle.income_stmt
    /\ balance_sheet = TwoPeriodBundle.balance_sheet
    /\ cash_flow = TwoPeriodBundle.cash_flow
    /\ \E shares \in SharesAndPrices : \E price \in SharesAndPrices :
          company_info = [market_cap |-> Mul(shares, price), shares_outstanding |-> shares,
                          current_price |-> price]
    /\ beta = R(1)
    /\ custom_params = NoCustomParams
    /\ dcf_params = DcfParams(1, Q(2, 100), Q(4, 100), Q(6, 100))
    /\ attrs = {}
    /\ historical = <<>>
    /\ projection_years = <<>>
    /\ projections = <<>>
    /\ wacc_components = <<>>
    /\ wacc = <<>>
    /\ dcf_results = <<>>
    /\ sensitivity_results = <<>>
    /\ pc = "idle"
    /\ last = [call |-> "__init__", outcome |-> "ok"]
    /\ rerun = FALSE
    /\ param_changes = 0

\* lines 476-535 of calculate_dcf for one projected year, no debt and no cash
Valuate ==
    /\ \E pv \in DiscountedFlows : \E tv \in DiscountedTerminals :
          dcf_results' = DcfRecord(<<2024>>, <<pv>>, <<pv>>, tv, tv,
                                   [total_debt |-> R(0), cash |-> R(0)],
                                   company_info, R(0), dcf_params)
    /\ last' = [call |-> "calculate_dcf", outcome |-> "ok"]
    /\ UNCHANGED <<inputs, dcf_params, attrs, historical, projection_years, projections,
                   wacc_components, wacc, sensitivity_results, pc, rerun, param_changes>>

SpecValuation == InitValuation /\ [][Valuate]_vars

-----------------------------------------------------------------------------
(* calculate_historical_metrics and generate_projections on their own, over
   statement tables drawn from grids of revenue histories and tax lines *)

MaxBlendYears == 3

\* every value of s multiplied by k
Scale(s, k) == [i \in 1..Len(s) |-> Mul(s[i], k)]

\* the same value for every period of s
Flat(s, v) == [i \in 1..Len(s) |-> v]

\* tables with an EBIT margin of 20%, capital expenditure of 10% and depreciation
\* of 5% of revenue, the given tax provision and pretax income in every period,
\* and no balance sheet rows
MetricsTables(columns, revenues, provision, pretax) ==
    [income_stmt |-> [columns |-> columns,
        rows |-> ("Total Revenue" :> revenues)
                 @@ ("Operating Income" :> Scale(revenues, Q(1, 5)))
                 @@ ("Tax Provision" :> Flat(revenues, provision))
                 @@ ("Income Before Tax" :> Flat(revenues, pretax))],
     balance_sheet |-> [columns |-> columns, rows |-> NoRows],
     cash_flow |-> [columns |-> columns,
        rows |-> ("Capital Expenditure" :> Scale(revenues, Q(-1, 10)))
                 @@ ("Depreciation" :> Scale(revenues, Q(1, 20)))]]

\* revenue histories: one period; 100, 110, 121 most recent first and in
\* chronological order; flat; shrinking; more than doubling; starting from 0,
\* in chronological order and most recent first
RevenueHistories ==
    {[columns |-> <<2023>>, revenues |-> <<R(100)>>],
     [columns |-> <<2023, 2022, 2021>>, revenues |-> <<R(100), R(50), R(0)>>],
     [columns |-> <<2023, 2022, 2021>>, revenues |-> <<R(121), R(110), R(100)>>],
     [columns |-> <<2021, 2022, 2023>>, revenues |-> <<R(100), R(110), R(121)>>],
     [columns |-> <<2021, 2022, 2023>>, revenues |-> <<R(100), R(100), R(100)>>],
     [columns |-> <<2021, 2022, 2023>>, revenues |-> <<R(100), R(80), R(64)>>],
     [columns |-> <<2021, 2022, 2023>>, revenues |-> <<R(100), R(150), R(300)>>],
     [columns |-> <<2022, 2023>>, revenues |-> <<R(0), R(100)>>]}

\* tax lines: 25% of pretax income; a provision above pretax income; a pretax
\* loss with a provision; no pretax income; a tax credit
TaxLines ==
    {[provision |-> Q(1, 2), pretax |-> R(2)],
     [provision |-> R(3), pretax |-> R(2)],
     [provision |-> Q(1, 2), pretax |-> R(-2)],
     [provision |-> Q(1, 2), pretax |-> R(0)],
     [provision |-> Q(-1, 2), pretax |-> R(2)]}

InitMetrics ==
    /\ \E h \in RevenueHistories : \E t \in TaxLines :
          /\ income_stmt = MetricsTables(h.columns, h.revenues, t.provision, t.pretax).income_stmt
          /\ balance_sheet = MetricsTables(h.columns, h.revenues, t.provision, t.pretax).balance_sheet
          /\ cash_flow = MetricsTables(h.columns, h.revenues, t.provision, t.pretax).cash_flow
    /\ company_info = Quoted
    /\ beta = R(1)
    /\ custom_params = NoCustomParams
    /\ \E n \in 1..MaxBlendYears :
          dcf_params = DcfParams(n, Q(10, 100), Q(4, 100), Q(6, 100))
    /\ attrs = {}
    /\ historical = <<>>
    /\ projection_years = <<>>
    /\ projections = <<>>
    /\ wacc_components = <<>>
    /\ wacc = <<>>
    /\ dcf_results = <<>>
    /\ sensitivity_results = <<>>
    /\ pc = "idle"
    /\ last = [call |-> "__init__", outcome |-> "ok"]
    /\ rerun = FALSE
    /\ param_changes = 0

NextMetrics ==
    \/ CallCalculateHistoricalMetrics
    \/ CallGenerateProjections

SpecMetrics == InitMetrics /\ [][NextMetrics]_vars

-----------------------------------------------------------------------------
(* calculate_wacc on its own, over latest periods drawn from a grid of EBIT
   margins, tax lines, debts, market snapshots and betas *)

\* the object as the constructor leaves it, nothing computed yet
Constructed ==
    /\ custom_params = NoCustomParams
    /\ attrs = {}
    /\ historical = <<>>
    /\ projection_years = <<>>
    /\ projections = <<>>
    /\ wacc_components = <<>>
    /\ wacc = <<>>
    /\ dcf_results = <<>>
    /\ sensitivity_results = <<>>
    /\ pc = "idle"
    /\ last = [call |-> "__init__", outcome |-> "ok"]
    /\ rerun = FALSE
    /\ param_changes = 0

\* two periods, most recent first, of revenue 100: the latest with the given
\* operating income, tax line and long-term debt, the one before it with a
\* margin of 30%, a tax rate of 10% and no debt
WaccTables(ebit, provision, pretax, debt) ==
    [income_stmt |-> [columns |-> <<2023, 2022>>,
        rows |-> ("Total Revenue" :> <<R(100), R(100)>>)
                 @@ ("Operating Income" :> <<ebit, R(30)>>)
                 @@ ("Tax Provision" :> <<provision, R(3)>>)
                 @@ ("Income Before Tax" :> <<pretax, R(30)>>)],
     balance_sheet |-> [columns |-> <<2023, 2022>>,
        rows |-> ("Long Term Debt" :> <<debt, R(0)>>)],
     cash_flow |-> [columns |-> <<2023, 2022>>, rows |-> NoRows]]

\* operating income of the latest period: margins on, between and beyond the
\* steps of the credit spread
OperatingIncomes == {R(25), R(20), R(15), R(10), R(5), R(0), R(-5)}
Debts == {R(0), R(10)}
Betas == {R(1), Q(3, 2)}

InitWacc ==
    /\ \E ebit \in OperatingIncomes : \E t \in TaxLines : \E debt \in Debts :
          /\ income_stmt = WaccTables(ebit, t.provision, t.pretax, debt).income_stmt
          /\ balance_sheet = WaccTables(ebit, t.provision, t.pretax, debt).balance_sheet
          /\ cash_flow = WaccTables(ebit, t.provision, t.pretax, debt).cash_flow
    /\ company_info \in {Quoted, Unquoted}
    /\ beta \in Betas
    /\ dcf_params = DcfParams(1, Q(2, 100), Q(4, 100), Q(6, 100))
    /\ Constructed

NextWacc ==
    \/ CallCalculateHistoricalMetrics
    \/ CallCalculateWacc

SpecWacc == InitWacc /\ [][NextWacc]_vars

-----------------------------------------------------------------------------
(* calculate_historical_metrics on its own, over one-period tables in which
   a field's row and the row of its alternative name are each absent, zero or
   filled *)

\* a row of one period, or no row
Row(item, listing) == IF listing.present THEN item :> <<listing.value>> ELSE NoRows

\* the row under a field's first name, and under its alternative name
FirstListings ==
    {[present |-> FALSE, value |-> R(0)], [present |-> TRUE, value |-> R(0)],
     [present |-> TRUE, value |-> R(5)]}
SecondListings ==
    {[present |-> FALSE, value |-> R(0)], [present |-> TRUE, value |-> R(0)],
     [present |-> TRUE, value |-> R(7)]}

\* revenue and EBIT rows listed as a and b, depreciation and cash rows as c and d
FieldTables(a, b, c, d) ==
    [income_stmt |-> [columns |-> <<2023>>,
        rows |-> Row("Total Revenue", a) @@ Row("Sales", b)
                 @@ Row("Operating Income", a) @@ Row("EBIT", b)],
     balance_sheet |-> [columns |-> <<2023>>,
        rows |-> Row("Cash And Cash Equivalents", c) @@ Row("Cash", d)],
     cash_flow |-> [columns |-> <<2023>>,
        rows |-> Row("Depreciation", c) @@ Row("Depreciation And Amortization", d)]]

InitFields ==
    /\ \E a, c \in FirstListings : \E b, d \in SecondListings :
          /\ income_stmt = FieldTables(a, b, c, d).income_stmt
          /\ balance_sheet = FieldTables(a, b, c, d).balance_sheet
          /\ cash_flow = FieldTables(a, b, c, d).cash_flow
    /\ company_info = Quoted
    /\ beta = R(1)
    /\ dcf_params = DcfParams(1, Q(2, 100), Q(4, 100), Q(6, 100))
    /\ Constructed

SpecFields == InitFields /\ [][CallCalculateHistoricalMetrics]_vars

-----------------------------------------------------------------------------
(* run_dcf_analysis: a model is constructed, the custom parameters are applied
   to its dcf_params and the full analysis is run *)

\* dcf_params as the constructor sets it
DefaultParams == DcfParams(5, Q(2, 100), Q(4, 100), Q(55, 1000))

\* dict.update: every key of custom is written, known or not
ApplyCustomParamsUpdating(params, custom) == custom @@ params

\* for key, value in custom_params.items(): if key in dcf_params: dcf_params[key] = value
ApplyCustomParams(params, custom) ==
    [key \in DOMAIN params |-> IF key \in DOMAIN custom THEN custom[key] ELSE params[key]]

\* one entry of custom_params, or none
Given(key, choice) == IF choice.present THEN key :> choice.value ELSE NoCustomParams

\* what custom_params may hold under a key: two parameters of the model, and
\* two names that are no parameter of it
GrowthChoices == {[present |-> FALSE, value |-> R(0)], [present |-> TRUE, value |-> Q(3, 100)]}
YearChoices ==
    {[present |-> FALSE, value |-> 0], [present |-> TRUE, value |-> 1],
     [present |-> TRUE, value |-> 2]}
DiscountChoices == {[present |-> FALSE, value |-> R(0)], [present |-> TRUE, value |-> Q(8, 100)]}
TaxChoices == {[present |-> FALSE, value |-> R(0)], [present |-> TRUE, value |-> Q(21, 100)]}

InitRunner ==
    /\ \E c \in Companies :
          /\ income_stmt = c.tables.income_stmt
          /\ balance_sheet = c.tables.balance_sheet
          /\ cash_flow = c.tables.cash_flow
          /\ company_info = c.info
    /\ beta = R(1)
    /\ dcf_params = DefaultParams
    /\ Constructed

\* run_dcf_analysis up to the start of run_full_analysis.  Runs that project more
\* than MaxProjYears years are left out, unless there is no period to project from.
RunDcfAnalysisBegin ==
    /\ pc = "idle"
    /\ last.call = "__init__"
    /\ \E g \in GrowthChoices : \E n \in YearChoices : \E d \in DiscountChoices :
       \E t \in TaxChoices :
          /\ custom_params' = Given("terminal_growth_rate", g) @@ Given("projection_years", n)
                              @@ Given("discount_rate", d) @@ Given("tax_rate", t)
          /\ dcf_params' = ApplyCustomParams(dcf_params, custom_params')
    /\ dcf_params'.projection_years <= MaxProjYears \/ HistoricalYears(income_stmt) = <<>>
    /\ pc' = Stages[1]
    /\ last' = [call |-> "run_full_analysis", outcome |-> "running"]
    /\ UNCHANGED <<income_stmt, balance_sheet, cash_flow, company_info, beta, object,
                   rerun, param_changes>>

NextRunner ==
    \/ RunDcfAnalysisBegin
    \/ RunFullAnalysisStep

SpecRunner == InitRunner /\ [][NextRunner]_vars

-----------------------------------------------------------------------------
(* Properties *)

\* the last projected free cash flow a stored valuation was computed from
LastFcf(results) ==
    results.fcf_projections[results.projection_years[Len(results.projection_years)]]

\* C1: whenever calculate_dcf has stored a valuation, the terminal value was
\* computed with a growth rate strictly below the WACC: with a positive last
\* free cash flow it is a finite number and it is not negative, whatever the
\* configured terminal_growth_rate is.
TerminalGrowthClamped ==
    dcf_results # <<>> /\ Gt(LastFcf(dcf_results), R(0))
        => /\ IsFinite(dcf_results.terminal_value)
           /\ Ge(dcf_results.terminal_value, R(0))

\* C2: in the stored sensitivity grid a cell is None exactly when its growth
\* value is greater than or equal to its WACC value.
NoneIffGrowthNotBelowWacc ==
    sensitivity_results # <<>> =>
        \A i, j \in 1..5 :
            (sensitivity_results.sensitivity_matrix[i][j] = None)
                <=> Ge(sensitivity_results.growth_values[j],
                       sensitivity_results.wacc_values[i])

\* a grid holding a None cell whose growth equals its WACC, and a number
NoneAtEqualGrowth ==
    /\ sensitivity_results # <<>>
    /\ \E i, j \in 1..5 :
          /\ sensitivity_results.growth_values[j] = sensitivity_results.wacc_values[i]
          /\ sensitivity_results.sensitivity_matrix[i][j] = None
    /\ \E i, j \in 1..5 : sensitivity_results.sensitivity_matrix[i][j] # None

\* sensitivity_analysis has just stored its grid from the stored projections
GridJustComputed ==
    /\ \/ last = [call |-> "sensitivity_analysis", outcome |-> "ok"]
       \/ pc = "report"
    /\ "projection_years" \in attrs

\* C3: every cell of the grid that is not None equals the per_share_value the
\* valuation of calculate_dcf gives from the same projections when the cell's
\* WACC is the discount rate and the cell's growth is the terminal growth rate.
CellsEqualValuation ==
    GridJustComputed =>
        \A i, j \in 1..5 :
            sensitivity_results.sensitivity_matrix[i][j] # None =>
                sensitivity_results.sensitivity_matrix[i][j] =
                    DcfResultsOf(projection_years, projections, historical, company_info,
                                 sensitivity_results.wacc_values[i],
                                 [dcf_params EXCEPT !.terminal_growth_rate =
                                     sensitivity_results.growth_values[j]]).per_share_value

\* a grid just computed over two projected years with a finite, nonzero cell
ComputedCellStored ==
    /\ GridJustComputed
    /\ Len(projection_years) > 1
    /\ \E i, j \in 1..5 :
          /\ sensitivity_results.sensitivity_matrix[i][j] # None
          /\ IsFinite(sensitivity_results.sensitivity_matrix[i][j])
          /\ sensitivity_results.sensitivity_matrix[i][j] # R(0)

\* C4: for every projection_years N >= 1, the growth rate generate_projections
\* stores for the final projected year equals terminal_growth_rate.
FinalYearGrowthIsTerminal ==
    (last = [call |-> "generate_projections", outcome |-> "ok"] \/ pc = "wacc")
        => projections[Len(projections)].revenue_growth = dcf_params.terminal_growth_rate

\* C5: the stored weight_equity and weight_debt sum to 1, and are 1 and 0 when
\* market cap plus total debt is 0.
WeightsSumToOne ==
    wacc_components # <<>> =>
        /\ Add(wacc_components.weight_equity, wacc_components.weight_debt) = R(1)
        /\ Add(company_info.market_cap, Latest(historical).total_debt) = R(0)
              => /\ wacc_components.weight_equity = R(1)
                 /\ wacc_components.weight_debt = R(0)

\* weights stored for a company with no capital at all
ZeroCapitalWeighted ==
    /\ wacc_components # <<>>
    /\ Add(company_info.market_cap, Latest(historical).total_debt) = R(0)

\* the sum of the per-year pv_fcf entries of a stored valuation
SumOfStoredPvFcf(results) ==
    SumSeq([i \in 1..Len(results.projection_years) |->
                results.pv_fcf[results.projection_years[i]]])

\* C6: every stored valuation has enterprise_value = sum_pv_fcf +
\* pv_terminal_value, sum_pv_fcf being the sum of its stored pv_fcf entries.
EnterpriseValueIsSum ==
    dcf_results # <<>> =>
        /\ dcf_results.sum_pv_fcf = SumOfStoredPvFcf(dcf_results)
        /\ dcf_results.enterprise_value =
              Add(SumOfStoredPvFcf(dcf_results), dcf_results.pv_terminal_value)

\* a valuation over two years whose discounted flows differ
TwoYearValuationStored ==
    /\ dcf_results # <<>>
    /\ Len(dcf_results.projection_years) > 1
    /\ IsFinite(dcf_results.enterprise_value)
    /\ dcf_results.pv_fcf[dcf_results.projection_years[1]]
          # dcf_results.pv_fcf[dcf_results.projection_years[2]]

\* C7: a run_full_analysis begun right after one that succeeded, with the
\* data and dcf_params unchanged, stores at its DCF stage a valuation identical
\* to the one the first run stored.
SecondRunSameValuation ==
    [][rerun /\ pc = "dcf" => dcf_results' = dcf_results]_vars

\* the second run has recomputed its valuation
SecondRunValued == rerun /\ pc = "sensitivity" /\ dcf_results # <<>>

\* the valuation the four stages give from scratch under the parameters in force
FreshValuation ==
    DcfResultsOf(ProjectionYearsOf(historical, dcf_params.projection_years),
                 ProjectionsOf(historical, dcf_params), historical, company_info,
                 WaccComponentsOf(historical, company_info, beta, dcf_params).wacc,
                 dcf_params)

\* C8: when calculate_dcf or generate_report has produced a valuation after a
\* parameter was changed, the valuation is the one the projections and the WACC
\* computed under the parameters now in force give.
ValuationUsesCurrentParams ==
    /\ param_changes > 0
    /\ last.call \in {"calculate_dcf", "generate_report"}
    /\ last.outcome = "ok"
    => dcf_results = FreshValuation

CoreStages == {"calculate_historical_metrics", "generate_projections", "calculate_wacc",
               "calculate_dcf", "sensitivity_analysis"}

\* C9: whatever the statement tables and the market snapshot hold, a core
\* stage called once the stages before it have run completes without raising.
CoreStagesNeverRaise ==
    last.call \in CoreStages => last.outcome \in {"ok", "AttributeError"}

\* C10: the stored upside_percentage is (per_share_value / current_price - 1)
\* * 100 for a positive price and 0 otherwise; the recommendation is BUY
\* exactly above 15, SELL exactly below -15 and HOLD otherwise.
UpsideAndRecommendation ==
    dcf_results # <<>> =>
        /\ dcf_results.upside_percentage =
              IF Gt(dcf_results.current_price, R(0))
              THEN Mul(Sub(Div(dcf_results.per_share_value, dcf_results.current_price),
                           R(1)), R(100))
              ELSE R(0)
        /\ dcf_results.recommendation = "BUY" <=> Gt(dcf_results.upside_percentage, R(15))
        /\ dcf_results.recommendation = "SELL" <=> Lt(dcf_results.upside_percentage, R(-15))
        /\ dcf_results.recommendation \in {"BUY", "SELL", "HOLD"}

\* 11.5 a share against a price of 10: an upside of exactly 15, held
HoldAtFifteen ==
    /\ dcf_results # <<>>
    /\ dcf_results.per_share_value = Q(23, 2)
    /\ dcf_results.current_price = R(10)
    /\ dcf_results.upside_percentage = R(15)
    /\ dcf_results.recommendation = "HOLD"

\* C11: the stored equity_value is enterprise_value - total_debt + cash with the
\* debt and cash of the latest historical year, and per_share_value is
\* equity_value / shares_outstanding, or 0 when there are no shares.
EquityBridge ==
    dcf_results # <<>> =>
        /\ dcf_results.debt = Latest(historical).total_debt
        /\ dcf_results.cash = Latest(historical).cash
        /\ dcf_results.equity_value =
              Add(Sub(dcf_results.enterprise_value, dcf_results.debt), dcf_results.cash)
        /\ dcf_results.per_share_value =
              IF Gt(company_info.shares_outstanding, R(0))
              THEN Div(dcf_results.equity_value, company_info.shares_outstanding)
              ELSE R(0)

\* a valuation of a company with debt, cash and shares
IndebtedCompanyValued ==
    /\ dcf_results # <<>>
    /\ Gt(dcf_results.debt, R(0))
    /\ Gt(dcf_results.cash, R(0))
    /\ Gt(dcf_results.shares_outstanding, R(0))
    /\ IsFinite(dcf_results.per_share_value)
    /\ dcf_results.per_share_value # R(0)

\* C12: with terminal_growth_rate < wacc the stored terminal_value is the last
\* projected FCF * (1 + terminal_growth_rate) / (wacc - terminal_growth_rate)
\* and pv_terminal_value is terminal_value * (1 + wacc)^(-N).
TerminalValueFormula ==
    dcf_results # <<>> /\ Lt(dcf_results.terminal_growth_rate, dcf_results.wacc) =>
        /\ dcf_results.terminal_value =
              Div(Mul(LastFcf(dcf_results), Add(R(1), dcf_results.terminal_growth_rate)),
                  Sub(dcf_results.wacc, dcf_results.terminal_growth_rate))
        /\ dcf_results.pv_terminal_value =
              Mul(dcf_results.terminal_value,
                  PowNeg(Add(R(1), dcf_results.wacc), Len(dcf_results.projection_years)))

\* a finite terminal value over two years with growth below the WACC
GrowthBelowWaccValued ==
    /\ dcf_results # <<>>
    /\ Lt(dcf_results.terminal_growth_rate, dcf_results.wacc)
    /\ Len(dcf_results.projection_years) > 1
    /\ IsFinite(dcf_results.terminal_value)
    /\ Gt(dcf_results.terminal_value, R(0))

\* the period of a year
PeriodOf(hist, y) == hist[CHOOSE i \in 1..Len(hist) : hist[i].year = y]

\* C13: every stored period that has the fiscal year before it among the stored
\* periods carries revenue_growth = revenue[t] / revenue[t-1] - 1, t-1 being that
\* year (whenever revenue[t-1] is not 0).
GrowthOverYearBefore ==
    "historical" \in attrs =>
        \A i \in 1..Len(historical) :
            /\ historical[i].year - 1 \in Range(YearsList(historical))
            /\ PeriodOf(historical, historical[i].year - 1).revenue # R(0)
            => /\ historical[i].has_yoy
               /\ historical[i].revenue_growth =
                     Sub(Div(historical[i].revenue,
                             PeriodOf(historical, historical[i].year - 1).revenue), R(1))

\* C14: the tax_rate stored for every historical period lies in [0, 1].
TaxRateInUnitInterval ==
    "historical" \in attrs =>
        \A i \in 1..Len(historical) :
            /\ Ge(historical[i].tax_rate, R(0))
            /\ Le(historical[i].tax_rate, R(1))

\* the median of the nonzero historical growth rates, 0.03 when there is none
\* to take it from
MedianGrowth(hist) ==
    IF Len(hist) > 1
    THEN Median(SelectSeq(Tail(Field(hist, "revenue_growth")), NotZero))
    ELSE Q(3, 100)

\* C15: the growth rate the projections start from lies in [0.01, 0.15], and is
\* the historical median itself when that lies in the range.
StartingGrowthClamped ==
    projections # <<>> =>
        /\ Ge(projections[1].revenue_growth, Q(1, 100))
        /\ Le(projections[1].revenue_growth, Q(15, 100))
        /\ Ge(MedianGrowth(historical), Q(1, 100)) /\ Le(MedianGrowth(historical), Q(15, 100))
              => projections[1].revenue_growth = MedianGrowth(historical)

\* projections started at the cap from a historical median above it
GrowthCappedFromAbove ==
    /\ projections # <<>>
    /\ Gt(MedianGrowth(historical), Q(15, 100))
    /\ projections[1].revenue_growth = Q(15, 100)

\* the stage that follows a stage of the run
StageAfter(stage) ==
    CASE stage = "idle" -> "historical"
      [] stage = "historical" -> "projections"
      [] stage = "projections" -> "wacc"
      [] stage = "wacc" -> "dcf"
      [] stage = "dcf" -> "sensitivity"
      [] stage = "sensitivity" -> "report"
      [] stage = "report" -> "charts"
      [] stage = "charts" -> "idle"

\* C16: run_full_analysis goes through historical metrics, projections, WACC,
\* DCF, sensitivity, report and charts in this order, a stage starting with the
\* output of the one before it stored, no stage running twice, and the run
\* ending with False at the first stage that fails.
StagesInStrictOrder ==
    [][/\ pc' # pc => pc' = StageAfter(pc) \/ pc' = "idle"
       /\ pc # "idle" => pc' # pc
       /\ pc # "idle" /\ pc' = "idle" =>
             \/ last'.outcome = "False"
             \/ pc = "charts" /\ last'.outcome = "True"
       /\ pc' = "projections" => "historical" \in attrs'
       /\ pc' = "wacc" => "projection_years" \in attrs'
       /\ pc' = "dcf" => "wacc_components" \in attrs'
       /\ pc' = "sensitivity" => dcf_results' # <<>>
       /\ pc' = "report" => "sensitivity_results" \in attrs']_vars

\* a run that has reached its last stage
RunAtCharts == pc = "charts" /\ "sensitivity_results" \in attrs /\ dcf_results # <<>>

\* sensitivity_analysis is the stage that ran last
SensitivityJustRun ==
    \/ last = [call |-> "sensitivity_analysis", outcome |-> "ok"]
    \/ pc = "report"

\* C17, as amended: the matrix is 5x5, the WACC axis is base + k * wacc_range / 2
\* for k = -2..2, and the growth axis is the smaller of terminal_growth_rate +
\* k * growth_range / 2 and base WACC - 0.005.
AxesWithCappedGrowth ==
    SensitivityJustRun =>
        /\ Len(sensitivity_results.sensitivity_matrix) = 5
        /\ \A k \in 1..5 :
              /\ Len(sensitivity_results.sensitivity_matrix[k]) = 5
              /\ sensitivity_results.wacc_values[k] =
                    Add(wacc, Mul(R(k - 3), Div(wacc_range, R(2))))
              /\ sensitivity_results.growth_values[k] =
                    PyMin(Add(dcf_params.terminal_growth_rate,
                              Mul(R(k - 3), Div(growth_range, R(2)))),
                          Sub(wacc, Q(5, 1000)))

\* C17, as stated: both axes are exactly base + k * range / 2 for k = -2..2,
\* whatever the base WACC and the terminal growth rate are.
AxesAsStated ==
    SensitivityJustRun =>
        /\ Len(sensitivity_results.sensitivity_matrix) = 5
        /\ \A k \in 1..5 :
              /\ Len(sensitivity_results.sensitivity_matrix[k]) = 5
              /\ sensitivity_results.wacc_values[k] =
                    Add(wacc, Mul(R(k - 3), Div(wacc_range, R(2))))
              /\ sensitivity_results.growth_values[k] =
                    Add(dcf_params.terminal_growth_rate,
                        Mul(R(k - 3), Div(growth_range, R(2))))

\* a grid whose highest growth value was brought down to base WACC - 0.005
GrowthAxisCapped ==
    /\ SensitivityJustRun
    /\ sensitivity_results.growth_values[5] = Sub(wacc, Q(5, 1000))
    /\ Gt(Add(dcf_params.terminal_growth_rate, growth_range), Sub(wacc, Q(5, 1000)))

\* C18: a sensitivity_analysis, called on its own or as a stage of the run,
\* leaves the projections, the historical metrics, dcf_params, wacc_components,
\* wacc and dcf_results as they were.
SensitivityChangesOnlyItsGrid ==
    [][(last'.call = "sensitivity_analysis" /\ CallSensitivityAnalysis)
          \/ (pc = "sensitivity" /\ RunFullAnalysisStep)
          => UNCHANGED <<projection_years, projections, historical, dcf_params,
                         wacc_components, wacc, dcf_results>>]_vars

\* a grid computed after a parameter was changed, over a stored valuation
GridAfterParamChange ==
    /\ last = [call |-> "sensitivity_analysis", outcome |-> "ok"]
    /\ param_changes > 0
    /\ dcf_results # <<>>
    /\ projections # <<>>

\* C19: once calculate_historical_metrics has stored the periods' records, no
\* step changes any field of them; computing them again gives the same records.
HistoricalNeverMutated ==
    []["historical" \in attrs => historical' = historical]_vars

\* a report produced over three stored periods
ReportedOverThreePeriods ==
    /\ last = [call |-> "generate_report", outcome |-> "ok"]
    /\ Len(historical) = 3
    /\ "wacc_components" \in attrs

\* C20: for N >= 2 projected years, year i (0-indexed) stores the growth rate
\* avg * (1 - i/(N-1)) + terminal_growth_rate * i/(N-1), avg being the averaged
\* historical growth, and the rates move monotonically from avg to the terminal
\* rate.
BlendedGrowthRates ==
    Len(projections) >= 2 =>
        /\ \A i \in 0..(Len(projections) - 1) :
              projections[i + 1].revenue_growth =
                 Add(Mul(AvgMetrics(historical, dcf_params).revenue_growth,
                         Sub(R(1), Q(i, Len(projections) - 1))),
                     Mul(dcf_params.terminal_growth_rate, Q(i, Len(projections) - 1)))
        /\ \A i \in 1..(Len(projections) - 1) :
              IF Le(projections[1].revenue_growth, dcf_params.terminal_growth_rate)
              THEN /\ Le(projections[i].revenue_growth, projections[i + 1].revenue_growth)
                   /\ Le(projections[i + 1].revenue_growth, dcf_params.terminal_growth_rate)
              ELSE /\ Ge(projections[i].revenue_growth, projections[i + 1].revenue_growth)
                   /\ Ge(projections[i + 1].revenue_growth, dcf_params.terminal_growth_rate)

\* three projected years whose growth rises strictly toward the terminal rate
ThreeYearsBlended ==
    /\ Len(projections) = 3
    /\ Lt(projections[1].revenue_growth, projections[2].revenue_growth)
    /\ Lt(projections[2].revenue_growth, projections[3].revenue_growth)
    /\ projections[3].revenue_growth = dcf_params.terminal_growth_rate

\* the revenue a projected year grows from: the latest historical revenue for
\* the first year, the revenue of the projected year before it for the others
RevenueBefore(i) ==
    IF i = 1 THEN Latest(historical).revenue ELSE projections[i - 1].revenue

\* C21: every projected year stores taxes = ebit * tax_rate, nopat = ebit -
\* taxes, working_capital_change = (its revenue - the revenue before it) * the
\* averaged working capital ratio, and fcf = nopat + depreciation - capex -
\* working_capital_change.
FreeCashFlowIdentities ==
    projections # <<>> =>
        \A i \in 1..Len(projections) :
            /\ projections[i].taxes = Mul(projections[i].ebit, projections[i].tax_rate)
            /\ projections[i].nopat = Sub(projections[i].ebit, projections[i].taxes)
            /\ projections[i].working_capital_change =
                  Mul(Sub(projections[i].revenue, RevenueBefore(i)),
                      AvgMetrics(historical, dcf_params).wc_to_revenue_change)
            /\ projections[i].fcf =
                  Sub(Sub(Add(projections[i].nopat, projections[i].depreciation),
                          projections[i].capex),
                      projections[i].working_capital_change)

\* two projected years with taxes, a change in working capital and a cash flow
TwoYearsOfCashFlow ==
    /\ Len(projections) = 2
    /\ \A i \in 1..2 :
          /\ Gt(projections[i].taxes, R(0))
          /\ IsFinite(projections[i].working_capital_change)
          /\ projections[i].working_capital_change # R(0)
          /\ IsFinite(projections[i].fcf)
          /\ projections[i].fcf # R(0)

\* C22: generate_projections stores exactly projection_years records, labelled
\* with the consecutive years after the latest historical year; the first
\* revenue is the revenue of the chronologically last historical year * (1 +
\* growth_rate[0]) and every later revenue is the one before it * (1 + its
\* growth rate).
ProjectionsCompoundFromLatest ==
    projections # <<>> =>
        /\ Len(projections) = dcf_params.projection_years
        /\ Len(projection_years) = dcf_params.projection_years
        /\ \E k \in 1..Len(historical) :
              /\ \A j \in 1..Len(historical) : historical[j].year <= historical[k].year
              /\ \A i \in 1..Len(projections) :
                    /\ projection_years[i] = historical[k].year + i
                    /\ projections[i].year = historical[k].year + i
              /\ projections[1].revenue =
                    Mul(historical[k].revenue, Add(R(1), projections[1].revenue_growth))
        /\ \A i \in 2..Len(projections) :
              projections[i].revenue =
                 Mul(projections[i - 1].revenue, Add(R(1), projections[i].revenue_growth))

\* three years projected from periods listed most recent first
ThreeYearsFromRecentFirst ==
    /\ Len(projections) = 3
    /\ Len(historical) = 3
    /\ historical[1].year > historical[3].year
    /\ projections[1].year = 2024
    /\ projections[1].revenue # historical[3].revenue
    /\ Gt(projections[3].revenue, projections[1].revenue)

\* the credit spread the ladder gives a margin
SpreadOfMargin(m) ==
    CASE Gt(m, Q(20, 100)) -> Q(100, 10000)
      [] Gt(m, Q(10, 100)) /\ Le(m, Q(20, 100)) -> Q(200, 10000)
      [] Gt(m, R(0)) /\ Le(m, Q(10, 100)) -> Q(300, 10000)
      [] Le(m, R(0)) -> Q(500, 10000)

\* C23: the stored WACC components have pre_tax_cost_of_debt = risk_free_rate +
\* the spread of the latest historical EBIT margin (100, 200, 300 or 500 bps),
\* after_tax_cost_of_debt = pre_tax_cost_of_debt * (1 - the latest historical tax
\* rate), cost_of_equity = risk_free_rate + beta * market_risk_premium and wacc =
\* weight_equity * cost_of_equity + weight_debt * after_tax_cost_of_debt.
CostOfCapitalFromLadder ==
    "wacc_components" \in attrs =>
        \E k \in 1..Len(historical) :
            /\ \A j \in 1..Len(historical) : historical[j].year <= historical[k].year
            /\ wacc_components.pre_tax_cost_of_debt =
                  Add(dcf_params.risk_free_rate, SpreadOfMargin(historical[k].ebit_margin))
            /\ wacc_components.after_tax_cost_of_debt =
                  Mul(wacc_components.pre_tax_cost_of_debt,
                      Sub(R(1), historical[k].tax_rate))
            /\ wacc_components.cost_of_equity =
                  Add(dcf_params.risk_free_rate, Mul(beta, dcf_params.market_risk_premium))
            /\ wacc_components.wacc =
                  Add(Mul(wacc_components.weight_equity, wacc_components.cost_of_equity),
                      Mul(wacc_components.weight_debt,
                          wacc_components.after_tax_cost_of_debt))

\* a WACC of an indebted company whose latest margin is exactly 20%
MarginOnTwentyPercent ==
    /\ "wacc_components" \in attrs
    /\ historical[1].ebit_margin = Q(20, 100)
    /\ wacc_components.pre_tax_cost_of_debt = Q(6, 100)
    /\ Gt(wacc_components.weight_debt, R(0))
    /\ beta # R(1)

\* the first value under the names that is present and not 0; 0 when there is
\* none
RECURSIVE FirstNonZero(_, _, _)
FirstNonZero(t, names, year) ==
    IF names = <<>> THEN R(0)
    ELSE IF Has(t, names[1]) /\ Loc(t, names[1], year) # R(0) THEN Loc(t, names[1], year)
    ELSE FirstNonZero(t, Tail(names), year)

\* C24: revenue, EBIT, depreciation and cash of every period are the first value
\* under the field's names, in their order, that is present and not 0, and 0
\* when no name has one.
FirstNonZeroSynonymStored ==
    "historical" \in attrs =>
        \A i \in 1..Len(historical) :
            /\ historical[i].revenue =
                  FirstNonZero(income_stmt,
                               <<"Total Revenue", "Revenue", "Sales", "Total Sales">>,
                               historical[i].year)
            /\ historical[i].ebit =
                  FirstNonZero(income_stmt, <<"Operating Income", "EBIT">>,
                               historical[i].year)
            /\ historical[i].depreciation =
                  FirstNonZero(cash_flow,
                               <<"Depreciation", "Depreciation And Amortization">>,
                               historical[i].year)
            /\ historical[i].cash =
                  FirstNonZero(balance_sheet, <<"Cash And Cash Equivalents", "Cash">>,
                               historical[i].year)

\* C25: a period with revenue 0 has ebit_margin, capex_to_revenue and
\* depreciation_to_revenue 0; a period whose previous fiscal period has revenue 0
\* has revenue_growth 0; and a period whose revenue equals that of its previous
\* fiscal period has wc_to_revenue_change 0.
ZeroDivisorsGiveZero ==
    "historical" \in attrs =>
        \A i \in 1..Len(historical) :
            /\ historical[i].revenue = R(0) =>
                  /\ historical[i].ebit_margin = R(0)
                  /\ historical[i].capex_to_revenue = R(0)
                  /\ historical[i].depreciation_to_revenue = R(0)
            /\ \A j \in 1..Len(historical) :
                  historical[j].year = historical[i].year - 1 =>
                      /\ historical[j].revenue = R(0) =>
                            historical[i].revenue_growth = R(0)
                      /\ historical[j].revenue = historical[i].revenue =>
                            historical[i].wc_to_revenue_change = R(0)

\* every ratio calculate_historical_metrics stores is a finite number, and a
\* zero divisor in the pair of periods the loop compares gives the ratio 0
RatiosGuarded ==
    "historical" \in attrs =>
        \A i \in 1..Len(historical) :
            /\ IsFinite(historical[i].ebit_margin)
            /\ IsFinite(historical[i].capex_to_revenue)
            /\ IsFinite(historical[i].depreciation_to_revenue)
            /\ IsFinite(historical[i].tax_rate)
            /\ IsFinite(historical[i].revenue_growth)
            /\ IsFinite(historical[i].wc_to_revenue_change)
            /\ i > 1 /\ historical[i - 1].revenue = R(0) =>
                  historical[i].revenue_growth = R(0)
            /\ i > 1 /\ historical[i - 1].revenue = historical[i].revenue =>
                  historical[i].wc_to_revenue_change = R(0)

\* C26: the averaged tax rate and EBIT margin stored with every projected year
\* are defined numbers, and so are the depreciation, capital expenditure, change
\* in working capital, taxes and free cash flow computed with the averaged
\* ratios; with no historical tax rate inside (0, 0.5) the tax rate is 0.25.
AveragedRatiosDefined ==
    projections # <<>> =>
        \A i \in 1..Len(projections) :
            /\ IsFinite(projections[i].tax_rate)
            /\ IsFinite(projections[i].ebit_margin)
            /\ IsFinite(projections[i].depreciation)
            /\ IsFinite(projections[i].capex)
            /\ IsFinite(projections[i].working_capital_change)
            /\ IsFinite(projections[i].taxes)
            /\ IsFinite(projections[i].fcf)
            /\ SelectSeq(Field(historical, "tax_rate"), TaxRateKept) = <<>> =>
                  projections[i].tax_rate = Q(25, 100)

\* C27: when run_full_analysis has run calculate_dcf and then
\* sensitivity_analysis, the centre cell of the matrix (row of the base WACC,
\* column of the base terminal growth) is the per_share_value of the stored
\* valuation.
CentreCellIsValuation ==
    pc = "report" =>
        sensitivity_results.sensitivity_matrix[3][3] = dcf_results.per_share_value

\* C28: the stored growth axis is non-decreasing and no value on it exceeds the
\* base WACC - 0.005; every cell of the rows of the base WACC and above holds a
\* number, so None occurs only in the two rows below the base WACC.
GrowthAxisBelowBaseWacc ==
    "sensitivity_results" \in attrs =>
        /\ \A j \in 1..4 :
              Le(sensitivity_results.growth_values[j],
                 sensitivity_results.growth_values[j + 1])
        /\ \A j \in 1..5 :
              Le(sensitivity_results.growth_values[j],
                 Sub(sensitivity_results.wacc_values[3], Q(5, 1000)))
        /\ \A i \in 1..5 : \A j \in 1..5 :
              /\ Ge(sensitivity_results.wacc_values[i], sensitivity_results.wacc_values[3])
                    => sensitivity_results.sensitivity_matrix[i][j] # None
              /\ sensitivity_results.sensitivity_matrix[i][j] = None => i \in {1, 2}

\* a grid with None beside a number in its lowest row, and a number in every
\* cell of the rows of the base WACC and above
NoneOnlyBelowBase ==
    /\ "sensitivity_results" \in attrs
    /\ sensitivity_results.sensitivity_matrix[1][5] = None
    /\ sensitivity_results.sensitivity_matrix[1][1] # None
    /\ \A i \in 3..5 : \A j \in 1..5 :
          sensitivity_results.sensitivity_matrix[i][j] # None
    /\ Lt(sensitivity_results.growth_values[1], sensitivity_results.growth_values[5])

\* C29: a stage of run_full_analysis that raises ends the run at once with the
\* return value False and no exception leaves the run; the run returns True
\* only from its seventh stage, when none has raised, and dcf_results then holds
\* current_price, per_share_value, upside_percentage and recommendation.
RunReturnsTrueOrFalse ==
    [][pc # "idle" =>
          IF RunStage(pc, Self).exc # ""
          THEN pc' = "idle" /\ last' = [call |-> "run_full_analysis", outcome |-> "False"]
          ELSE IF pc = "charts"
          THEN /\ pc' = "idle"
               /\ last' = [call |-> "run_full_analysis", outcome |-> "True"]
               /\ {"historical", "projection_years", "wacc_components", "wacc",
                   "sensitivity_results"} \subseteq attrs'
               /\ {"current_price", "per_share_value", "upside_percentage",
                   "recommendation"} \subseteq DOMAIN dcf_results'
          ELSE pc' = StageAfter(pc) /\ last'.outcome = "running"]_vars

\* a run that returned False because its second stage raised
RunFailedAtProjections ==
    /\ last = [call |-> "run_full_analysis", outcome |-> "False"]
    /\ "historical" \in attrs
    /\ "projection_years" \notin attrs
    /\ pc = "idle"

\* C30: once run_dcf_analysis has applied custom_params, dcf_params has exactly
\* the keys the constructor gave it; a key of custom_params that is one of them
\* holds the given value, every other parameter holds its default, and the keys
\* of custom_params that are no parameter are nowhere in dcf_params.  It stays so
\* through the whole run.
CustomParamsOnlyOverwrite ==
    /\ DOMAIN dcf_params = DOMAIN DefaultParams
    /\ last.call = "__init__" => dcf_params = DefaultParams
    /\ last.call # "__init__" =>
          \A key \in DOMAIN DefaultParams :
              dcf_params[key] = IF key \in DOMAIN custom_params THEN custom_params[key]
                                ELSE DefaultParams[key]

\* a finished run whose custom_params named a parameter and a name that is none
UnknownKeyIgnored ==
    /\ last = [call |-> "run_full_analysis", outcome |-> "True"]
    /\ "discount_rate" \in DOMAIN custom_params
    /\ "terminal_growth_rate" \in DOMAIN custom_params
    /\ dcf_params.terminal_growth_rate = Q(3, 100)
    /\ dcf_params.risk_free_rate = Q(4, 100)

====
